---- MODULE Spec2Model ----
(***************************************************************************)
(* PO analysis and inquiry decision engine of data_gather:                 *)
(* analyzer/analyzer.py (analyze and its helpers).                          *)
(*                                                                         *)
(* Calendar dates are day numbers (integers); a timedelta of n days is n.  *)
(* A raw date field is a record [fmt, day]: fmt says how the value is      *)
(* written ("none" = None, "empty" = "", "mdy" = MM/DD/YYYY, "iso" =       *)
(* YYYY-MM-DD, "bad" = any other text) and day is the date it denotes.     *)
(* A raw quantity is a record [kind, val]: "none" = None, "empty" = "",    *)
(* "text" = non numeric text, "int" = an integer (or integer string) val,  *)
(* "float" = a decimal number of val tenths ("5.5" has val 55).            *)
(* An optional parsed value is a sequence: << >> is None, <<v>> is v.      *)
(***************************************************************************)
EXTENDS Integers, Sequences, FiniteSets, TLC

VARIABLES
    today,               \* analyze: today = as_of or date.today()
    purchase_orders,     \* analyze: the input list, as far as the loop has read it
    should_inquire,      \* analyze: local declared before the loop
    cadence_reason,      \* analyze: local declared before the loop ("None" = None)
    days_since_last_inq, \* analyze: local declared before the loop
    analyzed,            \* analyze: the output list
    stats,               \* analyze: the run statistics
    netsuite,            \* the purchase orders as NetSuite holds them between runs
    ran,                 \* repeated runs: a run has taken place on day today
    decision,            \* repeated runs: the cadence decision of the latest run
    due_sends,           \* repeated runs: number of 'send' decisions taken in state Due
    prev_send,           \* repeated runs: day of the latest 'send' decision
    stage,               \* pipeline: "analyze", then "cli" (cli.py) or "main" (main.py)
    caps,                \* pipeline: the caps build_vendor_briefs was called with
    briefs_pack,         \* pipeline: what build_vendor_briefs returned
    drafts,              \* pipeline: the messages of run_deterministic_mode
    inquiries_pack,      \* pipeline: what build_vendor_inquiries_by_vendor returned
    run,                 \* drafting run: entry point and configuration
    pc,                  \* drafting run: where the run stands
    vendor_i,            \* drafting run: index of the brief being processed
    attempt,             \* run_agent_for_one_vendor: iterations entered for this brief
    invocations,         \* every call of Runner.run: its brief and how it ended
    results,             \* drafting run: one result per processed brief
    captured_emails,     \* create_draft_tool: the emails captured for reporting
    record_calls,        \* every call of create_draft_and_record, with what it returned
    outlook,             \* the drafts in the Outlook Drafts folder
    stamp_calls,         \* the po_ids of every call of the NetSuite stamper
    sent_mail,           \* the emails sent through Graph sendMail
    exit_code            \* << >> while running, then <<code>>

vars == <<today, purchase_orders, should_inquire, cadence_reason,
          days_since_last_inq, analyzed, stats, netsuite, ran, decision,
          due_sends, prev_send, stage, caps, briefs_pack, drafts,
          inquiries_pack, run, pc, vendor_i, attempt, invocations, results,
          captured_emails,
          record_calls, outlook, stamp_calls, sent_mail, exit_code>>

aggvars == <<stage, caps, briefs_pack, drafts, inquiries_pack>>

runvars == <<run, pc, vendor_i, attempt, invocations, results, captured_emails,
             record_calls, outlook, stamp_calls, sent_mail, exit_code>>

-----------------------------------------------------------------------------
(* Bounds of the model *)

\* the day number the input dates are laid out around
Day0 == 100

\* longest input list given to one call of analyze
MaxPOs == 2

\* number of days a sequence of repeated runs covers
MaxRunDays == 25

\* longest list of purchase orders a pipeline run gathers
MaxPipelinePOs == 3

-----------------------------------------------------------------------------
(* Raw values *)

NoneQty == [kind |-> "none", val |-> 0]
TextQty == [kind |-> "text", val |-> 0]
IntQty(n) == [kind |-> "int", val |-> n]
FloatQty(tenths) == [kind |-> "float", val |-> tenths]

NoneDate == [fmt |-> "none", day |-> 0]
BadDate == [fmt |-> "bad", day |-> 0]
MdyDate(d) == [fmt |-> "mdy", day |-> d]
IsoDate(d) == [fmt |-> "iso", day |-> d]

\* int(float(x)) truncates toward zero
TruncTenths(v) == IF v >= 0 THEN v \div 10 ELSE -((-v) \div 10)

to_int(x) ==
    IF x.kind \in {"none", "empty"} THEN 0
    ELSE IF x.kind = "int" THEN x.val
    ELSE IF x.kind = "float" THEN TruncTenths(x.val)
    ELSE 0

parse_mmddyyyy(d) ==
    IF d.fmt \in {"none", "empty"} THEN << >>
    ELSE IF d.fmt = "mdy" THEN <<d.day>>
    ELSE IF d.fmt = "iso" THEN <<d.day>>
    ELSE << >>

\* date.isoformat()
isoformat(d) == IsoDate(d)

-----------------------------------------------------------------------------
(* analyze *)

po_state_due_exclusive(earliest_due, as_of) ==
    IF earliest_due < as_of THEN "Past Due"
    ELSE IF earliest_due < as_of + 14 THEN "Due"
    ELSE "Normal"

po_state(earliest_due, as_of) ==
    IF earliest_due < as_of THEN "Past Due"
    ELSE IF earliest_due <= as_of + 14 THEN "Due"
    ELSE "Normal"

is_open(ln) == to_int(ln.qty_open) > 0

shipped_in_full_strict(ln) ==
    to_int(ln.qty_ordered) > 0 /\ to_int(ln.qty_on_shipments) > to_int(ln.qty_ordered)

shipped_in_full(ln) ==
    to_int(ln.qty_ordered) > 0 /\ to_int(ln.qty_on_shipments) >= to_int(ln.qty_ordered)

is_actionable(ln) == ~shipped_in_full(ln)

actionable_lines(lines) == SelectSeq(SelectSeq(lines, is_open), is_actionable)

has_due(ln) == parse_mmddyyyy(ln.line_due_date) # << >>

has_no_due(ln) == parse_mmddyyyy(ln.line_due_date) = << >>

parsed_due_dates(act) ==
    LET with_due == SelectSeq(act, has_due)
    IN  [k \in 1..Len(with_due) |-> parse_mmddyyyy(with_due[k].line_due_date)[1]]

missing_due_lines(act) ==
    LET without == SelectSeq(act, has_no_due)
    IN  [k \in 1..Len(without) |-> [line_no |-> without[k].line_no]]

first_of(s) == s[1]

min(s) == CHOOSE m \in {s[k] : k \in 1..Len(s)} : \A k \in 1..Len(s) : m <= s[k]

eligible_lines_all_dated(act, as_of) ==
    LET Keep(ln) == has_due(ln) /\ ~shipped_in_full(ln)
    IN  SelectSeq(act, Keep)

eligible_lines(act, as_of) ==
    LET Keep(ln) ==
            /\ has_due(ln)
            /\ ~(to_int(ln.qty_on_shipments) >= to_int(ln.qty_ordered)
                 /\ to_int(ln.qty_ordered) > 0)
            /\ parse_mmddyyyy(ln.line_due_date)[1] <= as_of + 14
    IN  SelectSeq(act, Keep)

days_since_signed(last_sent, as_of, carried) ==
    IF last_sent # << >> THEN <<as_of - last_sent[1]>> ELSE carried

\* lines 164-168: the carried value is kept when last_sent is None
days_since(last_sent, as_of, carried) ==
    IF last_sent # << >>
    THEN IF as_of - last_sent[1] < 0 THEN << >> ELSE <<as_of - last_sent[1]>>
    ELSE carried

cadence_due_inclusive(state, earliest_due, last_sent, as_of, carried) ==
    IF state = "Due"
    THEN IF last_sent = << >> \/ last_sent[1] <= earliest_due - 14
         THEN [should_inquire |-> TRUE, cadence_reason |-> "due_first_touch"]
         ELSE [should_inquire |-> FALSE, cadence_reason |-> "due_already_touched"]
    ELSE IF state = "Past Due"
    THEN IF last_sent = << >> \/ as_of - last_sent[1] >= 7
         THEN [should_inquire |-> TRUE, cadence_reason |-> "past_due_weekly"]
         ELSE [should_inquire |-> FALSE, cadence_reason |-> "past_due_waiting_week"]
    ELSE carried

cadence_past_due_strict(state, earliest_due, last_sent, as_of, carried) ==
    IF state = "Due"
    THEN IF last_sent = << >> \/ last_sent[1] < earliest_due - 14
         THEN [should_inquire |-> TRUE, cadence_reason |-> "due_first_touch"]
         ELSE [should_inquire |-> FALSE, cadence_reason |-> "due_already_touched"]
    ELSE IF state = "Past Due"
    THEN IF last_sent = << >> \/ as_of - last_sent[1] > 7
         THEN [should_inquire |-> TRUE, cadence_reason |-> "past_due_weekly"]
         ELSE [should_inquire |-> FALSE, cadence_reason |-> "past_due_waiting_week"]
    ELSE carried

cadence_future_as_none(state, earliest_due, last_sent, as_of, carried) ==
    LET known == IF last_sent # << >> /\ last_sent[1] > as_of THEN << >> ELSE last_sent
    IN  IF state = "Due"
        THEN IF known = << >> \/ known[1] < earliest_due - 14
             THEN [should_inquire |-> TRUE, cadence_reason |-> "due_first_touch"]
             ELSE [should_inquire |-> FALSE, cadence_reason |-> "due_already_touched"]
        ELSE IF state = "Past Due"
        THEN IF known = << >> \/ as_of - known[1] >= 7
             THEN [should_inquire |-> TRUE, cadence_reason |-> "past_due_weekly"]
             ELSE [should_inquire |-> FALSE, cadence_reason |-> "past_due_waiting_week"]
        ELSE carried

\* lines 171-187, entered only when eligible_lines is non-empty
cadence(state, earliest_due, last_sent, as_of, carried) ==
    IF state = "Due"
    THEN IF last_sent = << >> \/ last_sent[1] < earliest_due - 14
         THEN [should_inquire |-> TRUE, cadence_reason |-> "due_first_touch"]
         ELSE [should_inquire |-> FALSE, cadence_reason |-> "due_already_touched"]
    ELSE IF state = "Past Due"
    THEN IF last_sent = << >> \/ as_of - last_sent[1] >= 7
         THEN [should_inquire |-> TRUE, cadence_reason |-> "past_due_weekly"]
         ELSE [should_inquire |-> FALSE, cadence_reason |-> "past_due_waiting_week"]
    ELSE carried

recommended_action_missing_wins(missing, eligible) ==
    IF missing # << >> THEN "notify_buyer_missing_due_dates"
    ELSE IF eligible # << >> THEN "inquire_vendor"
    ELSE "none"

recommended_action(missing, eligible) ==
    IF eligible # << >> THEN "inquire_vendor"
    ELSE IF missing # << >> THEN "notify_buyer_missing_due_dates"
    ELSE "none"

count_state_first_only(st, state) ==
    IF st.po_count > 1 THEN st
    ELSE IF state = "Normal" THEN [st EXCEPT !.normal_count = @ + 1]
    ELSE IF state = "Due" THEN [st EXCEPT !.due_count = @ + 1]
    ELSE [st EXCEPT !.past_due_count = @ + 1]

count_state(st, state) ==
    IF state = "Normal" THEN [st EXCEPT !.normal_count = @ + 1]
    ELSE IF state = "Due" THEN [st EXCEPT !.due_count = @ + 1]
    ELSE [st EXCEPT !.past_due_count = @ + 1]

InitStats(as_of) ==
    [as_of |-> isoformat(as_of), po_count |-> 0, line_count |-> 0,
     normal_count |-> 0, due_count |-> 0, past_due_count |-> 0,
     needs_buyer_data_count |-> 0, eligible_for_inquiry_count |-> 0]

\* the locals of analyze before the loop
InitLocals(as_of) ==
    [should_inquire |-> FALSE, cadence_reason |-> "None",
     days_since_last_inq |-> << >>, analyzed |-> << >>, stats |-> InitStats(as_of)]

unknown_branch_as_normal(s, po, stats1, act) ==
    [s EXCEPT
        !.stats = [stats1 EXCEPT !.needs_buyer_data_count = @ + 1,
                                 !.normal_count = @ + 1],
        !.analyzed = Append(@,
            [po_id |-> po.po_id,
             po_number |-> po.po_number,
             vendor_email |-> po.vendor_email,
             last_inq_sent_date |-> po.last_inq_sent_date,
             days_since_last_inquiry |-> s.days_since_last_inq,
             state |-> "Unknown",
             earliest_due_date |-> NoneDate,
             open_line_count |-> Len(act),
             missing_due_date_lines |-> missing_due_lines(act),
             recommended_action |-> "notify_buyer_missing_due_dates",
             eligible_lines_for_inquiry |-> << >>])]

unknown_branch_uncounted(s, po, stats1, act) ==
    [s EXCEPT
        !.stats = stats1,
        !.analyzed = Append(@,
            [po_id |-> po.po_id,
             po_number |-> po.po_number,
             vendor_email |-> po.vendor_email,
             last_inq_sent_date |-> po.last_inq_sent_date,
             days_since_last_inquiry |-> s.days_since_last_inq,
             state |-> "Unknown",
             earliest_due_date |-> NoneDate,
             open_line_count |-> Len(act),
             missing_due_date_lines |-> missing_due_lines(act),
             recommended_action |-> "notify_buyer_missing_due_dates",
             eligible_lines_for_inquiry |-> << >>])]

\* lines 112-133: no parsed due date; the record is appended and the loop continues
unknown_branch(s, po, stats1, act) ==
    [s EXCEPT
        !.stats = [stats1 EXCEPT !.needs_buyer_data_count = @ + 1],
        !.analyzed = Append(@,
            [po_id |-> po.po_id,
             po_number |-> po.po_number,
             vendor_email |-> po.vendor_email,
             last_inq_sent_date |-> po.last_inq_sent_date,
             days_since_last_inquiry |-> s.days_since_last_inq,
             state |-> "Unknown",
             earliest_due_date |-> NoneDate,
             open_line_count |-> Len(act),
             missing_due_date_lines |-> missing_due_lines(act),
             recommended_action |-> "notify_buyer_missing_due_dates",
             eligible_lines_for_inquiry |-> << >>])]

\* lines 135-218: the PO has an earliest due date
classified_branch(s, po, stats1, act, as_of) ==
    LET last_sent == parse_mmddyyyy(po.last_inq_sent_date)
        missing == missing_due_lines(act)
        earliest_due == min(parsed_due_dates(act))
        state == po_state(earliest_due, as_of)
        stats2 == count_state(stats1, state)
        eligible == eligible_lines(act, as_of)
        days == days_since(last_sent, as_of, s.days_since_last_inq)
        carried == [should_inquire |-> s.should_inquire,
                    cadence_reason |-> s.cadence_reason]
        cad == IF eligible # << >>
               THEN cadence(state, earliest_due, last_sent, as_of, carried)
               ELSE carried
        action == recommended_action(missing, eligible)
        stats3 == IF missing # << >>
                  THEN [stats2 EXCEPT !.needs_buyer_data_count = @ + 1]
                  ELSE stats2
        stats4 == IF eligible # << >>
                  THEN [stats3 EXCEPT !.eligible_for_inquiry_count = @ + 1]
                  ELSE stats3
    IN  [should_inquire |-> cad.should_inquire,
         cadence_reason |-> cad.cadence_reason,
         days_since_last_inq |-> days,
         stats |-> stats4,
         analyzed |-> Append(s.analyzed,
            [po_id |-> po.po_id,
             po_number |-> po.po_number,
             vendor_email |-> po.vendor_email,
             last_inq_sent_date |-> po.last_inq_sent_date,
             days_since_last_inquiry |-> days,
             state |-> state,
             earliest_due_date |-> isoformat(earliest_due),
             open_line_count |-> Len(act),
             missing_due_date_lines |-> missing,
             recommended_action |-> action,
             eligible_lines_for_inquiry |-> eligible])]

\* one iteration of "for po in purchase_orders" (lines 75-218)
LoopBody(s, po, as_of) ==
    LET lines == po.lines
        stats1 == [s.stats EXCEPT !.po_count = @ + 1,
                                  !.line_count = @ + Len(lines)]
        act == actionable_lines(lines)
    IN  IF parsed_due_dates(act) = << >>
        THEN unknown_branch(s, po, stats1, act)
        ELSE classified_branch(s, po, stats1, act, as_of)

RECURSIVE LoopFrom(_, _, _, _)
LoopFrom(s, pos, k, as_of) ==
    IF k > Len(pos) THEN s
    ELSE LoopFrom(LoopBody(s, pos[k], as_of), pos, k + 1, as_of)

\* a whole call: {"purchase_orders": analyzed, "stats": stats}, with the
\* final values of the locals beside them
analyze(pos, as_of) == LoopFrom(InitLocals(as_of), pos, 1, as_of)

-----------------------------------------------------------------------------
(* Strings.  A po_number is the sequence of its characters (digits), a     *)
(* po_id is the string str(id) of an internal id; Python compares strings  *)
(* character by character.                                                 *)

\* str(n) for 0 <= n < 100, as the sequence of its decimal digits
str(n) == IF n < 10 THEN <<n>> ELSE <<n \div 10, n % 10>>

\* a < b on strings
str_lt(a, b) ==
    \E k \in 1..Len(b) :
        /\ \A j \in 1..(k - 1) : j <= Len(a) /\ a[j] = b[j]
        /\ (k > Len(a) \/ a[k] < b[k])

\* s[:n] for n >= 0
take_all(s, n) == s

take(s, n) == SubSeq(s, 1, IF n < Len(s) THEN n ELSE Len(s))

\* sorted(S) of a set of po_id strings, held as the ids they are the str of
\* sum(s) of a list of numbers
RECURSIVE sum(_)
sum(s) == IF s = << >> THEN 0 ELSE Head(s) + sum(Tail(s))

RECURSIVE sorted(_)
sorted(S) ==
    IF S = {} THEN << >>
    ELSE LET m == CHOOSE m \in S : \A x \in S : x = m \/ str_lt(str(m), str(x))
         IN  <<m>> \o sorted(S \ {m})

-----------------------------------------------------------------------------
(* cli.py: build_vendor_briefs (po_email_agent_runner.py holds a copy) and *)
(* the deterministic templater                                             *)

\* the keyword defaults of build_vendor_briefs
default_max_vendors == 50

default_max_pos_per_vendor == 20

default_max_lines_per_po == 50

vendor_index(by_vendor, vendor_email) ==
    CHOOSE k \in DOMAIN by_vendor : by_vendor[k].vendor_email = vendor_email

count_summary(summary, state) ==
    IF state = "Due" THEN [summary EXCEPT !.due_pos = @ + 1]
    ELSE IF state = "Past Due" THEN [summary EXCEPT !.past_due_pos = @ + 1]
    ELSE [summary EXCEPT !.unknown_pos = @ + 1]

\* lines 363-402: one iteration of "for po in analyzed_pos"; by_vendor is a
\* dict, which keeps its keys in insertion order
brief_add(by_vendor, po, max_lines_per_po) ==
    IF po.recommended_action # "inquire_vendor" THEN by_vendor
    ELSE IF po.vendor_email = "" THEN by_vendor
    ELSE LET known == \E k \in DOMAIN by_vendor :
                          by_vendor[k].vendor_email = po.vendor_email
             bv == IF known THEN by_vendor
                   ELSE Append(by_vendor,
                            [vendor_email |-> po.vendor_email,
                             po_ids |-> {},
                             pos |-> << >>,
                             summary |-> [due_pos |-> 0, past_due_pos |-> 0,
                                          unknown_pos |-> 0]])
             k == vendor_index(bv, po.vendor_email)
         IN  [bv EXCEPT
                 ![k].summary = count_summary(@, po.state),
                 ![k].po_ids = @ \cup {po.po_id},
                 ![k].pos = Append(@,
                     [po_number |-> po.po_number,
                      state |-> po.state,
                      earliest_due_date |-> po.earliest_due_date,
                      days_since_last_inquiry |-> po.days_since_last_inquiry,
                      cadence_reason |-> "None",
                      lines |-> take(po.eligible_lines_for_inquiry,
                                     max_lines_per_po)])]

RECURSIVE briefs_from(_, _, _, _)
briefs_from(by_vendor, analyzed_pos, k, max_lines_per_po) ==
    IF k > Len(analyzed_pos) THEN by_vendor
    ELSE briefs_from(brief_add(by_vendor, analyzed_pos[k], max_lines_per_po),
                     analyzed_pos, k + 1, max_lines_per_po)

\* lines 407-412: the set of ids becomes a sorted list, then both lists are cut
cap_brief(b, max_pos_per_vendor) ==
    LET po_ids == sorted(b.po_ids)
    IN  IF Len(b.pos) > max_pos_per_vendor
        THEN [b EXCEPT !.pos = take(@, max_pos_per_vendor),
                       !.po_ids = take(po_ids, max_pos_per_vendor)]
        ELSE [b EXCEPT !.po_ids = po_ids]

build_vendor_briefs(analyzed_pos, max_vendors, max_pos_per_vendor, max_lines_per_po) ==
    LET by_vendor == briefs_from(<< >>, analyzed_pos, 1, max_lines_per_po)
        briefs_all == [k \in DOMAIN by_vendor |->
                          cap_brief(by_vendor[k], max_pos_per_vendor)]
        briefs == take(briefs_all, max_vendors)
    IN  [briefs |-> briefs,
         stats |-> [vendor_count |-> Len(briefs),
                    total_pos |-> sum([k \in DOMAIN briefs |-> Len(briefs[k].pos)]),
                    capped_vendors |->
                        IF Len(briefs_all) > max_vendors
                        THEN Len(briefs_all) - Len(briefs) ELSE 0]]

\* the subject line: which of the three texts, and the numbers printed in it
subject_text(past_due, due) ==
    IF past_due > 0 /\ due > 0
    THEN [text |-> "Update Requested: Past Due, Due", past_due |-> <<past_due>>,
          due |-> <<due>>]
    ELSE IF past_due > 0
    THEN [text |-> "Update Requested: Past Due", past_due |-> <<past_due>>,
          due |-> << >>]
    ELSE [text |-> "Confirmation: Due Soon", past_due |-> << >>, due |-> <<due>>]

build_deterministic_subject(brief) ==
    subject_text(brief.summary.past_due_pos, brief.summary.due_pos)

\* the body, as the purchase order blocks it prints between greeting and
\* signature: a header line and the line numbers below it
build_deterministic_body(brief) ==
    [k \in DOMAIN brief.pos |->
        [po_number |-> brief.pos[k].po_number,
         state |-> brief.pos[k].state,
         earliest_due_date |-> brief.pos[k].earliest_due_date,
         lines |-> [j \in DOMAIN brief.pos[k].lines |->
                       brief.pos[k].lines[j].line_no]]]

\* the loop of run_deterministic_mode: one message per brief, handed to
\* create_draft_and_record
run_deterministic_mode(briefs) ==
    [k \in DOMAIN briefs |->
        [to |-> briefs[k].vendor_email,
         subject |-> build_deterministic_subject(briefs[k]),
         body |-> build_deterministic_body(briefs[k]),
         po_ids |-> briefs[k].po_ids]]

-----------------------------------------------------------------------------
(* analyzer.py: build_vendor_inquiries_by_vendor (run by main.py)          *)

\* the day 9999-12-31: "9999-12-31" is above every ISO date string
date_9999_12_31 == 3652059

\* lines 442-453
rank_of(state) ==
    IF state = "Past Due" THEN 0 ELSE IF state = "Due" THEN 1 ELSE 2

sort_key(p) ==
    [rank |-> rank_of(p.state),
     ed |-> IF p.earliest_due_date.fmt = "none" THEN date_9999_12_31
            ELSE p.earliest_due_date.day,
     po_number |-> p.po_number]

\* a < b on the key tuples
key_lt(a, b) ==
    \/ a.rank < b.rank
    \/ a.rank = b.rank /\ a.ed < b.ed
    \/ a.rank = b.rank /\ a.ed = b.ed /\ str_lt(a.po_number, b.po_number)

\* x goes behind every element that is not above it: list.sort is stable
insert_sorted(s, x) ==
    LET n == Cardinality({k \in DOMAIN s : ~key_lt(sort_key(x), sort_key(s[k]))})
    IN  SubSeq(s, 1, n) \o <<x>> \o SubSeq(s, n + 1, Len(s))

sort_pos_as_analyzed(pos_list) == pos_list

RECURSIVE sort_pos(_)
sort_pos(pos_list) ==
    IF pos_list = << >> THEN << >>
    ELSE insert_sorted(sort_pos(SubSeq(pos_list, 1, Len(pos_list) - 1)),
                       pos_list[Len(pos_list)])

line_summary(ln) ==
    [line_no |-> ln.line_no,
     due_date |-> ln.line_due_date,
     qty_open |-> to_int(ln.qty_open),
     qty_on_shipments |-> to_int(ln.qty_on_shipments)]

\* lines 379-432: one iteration of "for po in analyzed_purchase_orders"
bucket_add(acc, po) ==
    IF po.recommended_action # "inquire_vendor" THEN acc
    ELSE IF po.vendor_email = ""
    THEN [acc EXCEPT !.skipped_missing_vendor_email = @ + 1]
    ELSE LET buckets == acc.buckets
             known == \E k \in DOMAIN buckets :
                          buckets[k].vendor_email = po.vendor_email
             bs == IF known THEN buckets
                   ELSE Append(buckets,
                            [vendor_email |-> po.vendor_email, pos |-> << >>])
             k == vendor_index(bs, po.vendor_email)
             eligible == po.eligible_lines_for_inquiry
         IN  [acc EXCEPT !.buckets = [bs EXCEPT ![k].pos = Append(@,
                 [po_id |-> po.po_id,
                  po_number |-> po.po_number,
                  state |-> po.state,
                  earliest_due_date |-> po.earliest_due_date,
                  lines |-> [j \in DOMAIN eligible |->
                                line_summary(eligible[j])],
                  any_on_shipments |->
                      \E j \in DOMAIN eligible :
                          to_int(eligible[j].qty_on_shipments) > 0])]]

RECURSIVE buckets_from(_, _, _)
buckets_from(acc, analyzed_pos, k) ==
    IF k > Len(analyzed_pos) THEN acc
    ELSE buckets_from(bucket_add(acc, analyzed_pos[k]), analyzed_pos, k + 1)

count_in_state(pos_list, state) ==
    Cardinality({k \in DOMAIN pos_list : pos_list[k].state = state})

\* lines 436-509: the inquiry made of one bucket
inquiry_of(b) ==
    LET po_ids == sorted({b.pos[k].po_id : k \in DOMAIN b.pos})
        pos_list == sort_pos(b.pos)
        past_due_count == count_in_state(pos_list, "Past Due")
        due_count == count_in_state(pos_list, "Due")
    IN  [vendor_email |-> b.vendor_email,
         subject |-> subject_text(past_due_count, due_count),
         body |-> [k \in DOMAIN pos_list |->
                      [po_number |-> pos_list[k].po_number,
                       state |-> pos_list[k].state,
                       earliest_due_date |-> pos_list[k].earliest_due_date,
                       lines |-> [j \in DOMAIN pos_list[k].lines |->
                                     pos_list[k].lines[j].line_no]]],
         po_ids |-> po_ids,
         pos |-> pos_list]

total_lines(pos_list) == sum([k \in DOMAIN pos_list |-> Len(pos_list[k].lines)])

build_vendor_inquiries_by_vendor(analyzed_pos, as_of) ==
    LET acc == buckets_from([buckets |-> << >>, skipped_missing_vendor_email |-> 0],
                            analyzed_pos, 1)
        inquiries == [k \in DOMAIN acc.buckets |-> inquiry_of(acc.buckets[k])]
        over(F(_)) == sum([k \in DOMAIN inquiries |-> F(inquiries[k])])
        n_pos(i) == Len(i.pos)
        n_lines(i) == total_lines(i.pos)
        n_past_due(i) == count_in_state(i.pos, "Past Due")
        n_due(i) == count_in_state(i.pos, "Due")
    IN  [inquiries |-> inquiries,
         stats |-> [as_of |-> isoformat(as_of),
                    vendor_inquiry_count |-> Len(inquiries),
                    skipped_missing_vendor_email |-> acc.skipped_missing_vendor_email,
                    total_pos_included |-> over(n_pos),
                    total_lines_included |-> over(n_lines),
                    due_pos |-> over(n_due),
                    past_due_pos |-> over(n_past_due)]]

-----------------------------------------------------------------------------
(* Inputs *)

Line(no, open, ordered, shipped, due) ==
    [line_no |-> no, qty_open |-> open, qty_ordered |-> ordered,
     qty_on_shipments |-> shipped, line_due_date |-> due]

\* the lines a purchase order may hold, in line_no order
LineKinds ==
    << Line(1, IntQty(5), IntQty(10), IntQty(9), MdyDate(Day0)),
       Line(2, IntQty(5), IntQty(10), IntQty(10), MdyDate(Day0)),
       Line(3, FloatQty(55), TextQty, IntQty(3), IsoDate(Day0 + 16)),
       Line(4, IntQty(5), IntQty(10), NoneQty, NoneDate),
       Line(5, IntQty(0), IntQty(10), IntQty(0), MdyDate(Day0)) >>

LinesOf(S) == LET Keep(ln) == ln.line_no \in S IN SelectSeq(LineKinds, Keep)

LastSentValues ==
    {BadDate, MdyDate(Day0 - 6), IsoDate(Day0 - 5), MdyDate(Day0 + 1),
     IsoDate(Day0 + 2)}

\* line sets of the purchase orders that come with a last inquiry date
StampedLineSets == {{1}, {3}, {1, 4}}

POs ==
    {[lines |-> LinesOf(S), last_inq_sent_date |-> NoneDate] :
        S \in SUBSET DOMAIN LineKinds}
    \cup
    {[lines |-> LinesOf(S), last_inq_sent_date |-> d] :
        S \in StampedLineSets, d \in LastSentValues}

\* the tranid of the purchase order with internal id id: ids and document
\* numbers grow together, and the numbers do not all have the same length
po_number_of(id) == str(id + 7)

\* group_lines_by_po gives every purchase order its own po_id; the header
\* fields come from the first row of the purchase order
PO(id, number, email, lines, last_sent) ==
    [po_id |-> id, po_number |-> number, vendor_email |-> email,
     lines |-> lines, last_inq_sent_date |-> last_sent]

WithId(po, id) ==
    PO(id, po_number_of(id), "a@vendor", po.lines, po.last_inq_sent_date)

Todays == {Day0, Day0 + 1, Day0 + 2}

NoDecision == [state |-> "None", send |-> FALSE, prev |-> << >>]

Caps(max_vendors, max_pos_per_vendor, max_lines_per_po) ==
    [max_vendors |-> max_vendors, max_pos_per_vendor |-> max_pos_per_vendor,
     max_lines_per_po |-> max_lines_per_po]

DefaultCaps ==
    Caps(default_max_vendors, default_max_pos_per_vendor, default_max_lines_per_po)

\* a run configuration: the entry point, DRY_RUN, SEND_EMAILS, STAMP_POS,
\* --no-agent and --export-html
Config(entry, dry_run, draft_enabled, stamp_enabled, no_agent, export_html) ==
    [entry |-> entry, dry_run |-> dry_run, draft_enabled |-> draft_enabled,
     stamp_enabled |-> stamp_enabled, no_agent |-> no_agent,
     export_html |-> export_html]

\* no drafting run has started
InitIdle ==
    /\ run = Config("none", TRUE, FALSE, FALSE, FALSE, FALSE)
    /\ pc = "idle"
    /\ vendor_i = 0
    /\ attempt = 0
    /\ invocations = << >>
    /\ results = << >>
    /\ captured_emails = << >>
    /\ record_calls = << >>
    /\ outlook = << >>
    /\ stamp_calls = << >>
    /\ sent_mail = << >>
    /\ exit_code = << >>

\* before any aggregation has run
InitAgg ==
    /\ stage = "analyze"
    /\ caps = DefaultCaps
    /\ briefs_pack = build_vendor_briefs(<< >>, 0, 0, 0)
    /\ drafts = << >>
    /\ inquiries_pack = build_vendor_inquiries_by_vendor(<< >>, Day0)

-----------------------------------------------------------------------------
(* One call of analyze, an iteration of its loop per step *)

Init ==
    /\ today \in Todays
    /\ purchase_orders = << >>
    /\ should_inquire = FALSE
    /\ cadence_reason = "None"
    /\ days_since_last_inq = << >>
    /\ analyzed = << >>
    /\ stats = InitStats(today)
    /\ netsuite = << >>
    /\ ran = FALSE
    /\ decision = NoDecision
    /\ due_sends = 0
    /\ prev_send = << >>
    /\ InitAgg
    /\ InitIdle

Locals ==
    [should_inquire |-> should_inquire, cadence_reason |-> cadence_reason,
     days_since_last_inq |-> days_since_last_inq, analyzed |-> analyzed,
     stats |-> stats]

AnalyzePO ==
    /\ Len(purchase_orders) < MaxPOs
    /\ \E p \in POs :
        LET po == WithId(p, Len(purchase_orders) + 1)
            s == LoopBody(Locals, po, today)
        IN  /\ purchase_orders' = Append(purchase_orders, po)
            /\ should_inquire' = s.should_inquire
            /\ cadence_reason' = s.cadence_reason
            /\ days_since_last_inq' = s.days_since_last_inq
            /\ analyzed' = s.analyzed
            /\ stats' = s.stats
    /\ UNCHANGED <<today, netsuite, ran, decision, due_sends, prev_send>>
    /\ UNCHANGED aggvars
    /\ UNCHANGED runvars

Next == AnalyzePO

Spec == Init /\ [][Next]_vars

-----------------------------------------------------------------------------
(* Repeated runs over one purchase order.  Every run gathers the purchase  *)
(* order from NetSuite and analyzes it as of the run day; when the cadence *)
(* policy decides 'send', the run day is stamped as the last inquiry date  *)
(* (netsuite_stamper.py), which the next run reads back.                   *)

\* the RESTlet sets custbody_last_inq_sent_date_ of the purchase orders in
\* po_ids; SuiteQL hands the date back as MM/DD/YYYY or as YYYY-MM-DD
stamp_last_inq_sent_date_netsuite(ns, po_ids, sent_date, fmt) ==
    [k \in DOMAIN ns |->
        IF ns[k].po_id \in po_ids
        THEN [ns[k] EXCEPT !.last_inq_sent_date = [fmt |-> fmt, day |-> sent_date.day]]
        ELSE ns[k]]

FirstRunDay == Day0 - 15

LastRunDay == FirstRunDay + MaxRunDays - 1

RunLastSentValues == {NoneDate, MdyDate(Day0 - 15), IsoDate(Day0 - 14)}

RunPOs ==
    {[lines |-> LinesOf(S), last_inq_sent_date |-> d] :
        S \in SUBSET DOMAIN LineKinds, d \in RunLastSentValues}

\* the day of the first run: before, or in the middle of, the due-window of
\* a line due on Day0
StartDays == {FirstRunDay, Day0 - 3}

InitRuns ==
    /\ today \in StartDays
    /\ purchase_orders = << >>
    /\ should_inquire = FALSE
    /\ cadence_reason = "None"
    /\ days_since_last_inq = << >>
    /\ analyzed = << >>
    /\ stats = InitStats(today)
    /\ \E p \in RunPOs : netsuite = <<WithId(p, 1)>>
    /\ ran = FALSE
    /\ decision = NoDecision
    /\ due_sends = 0
    /\ prev_send = << >>
    /\ InitAgg
    /\ InitIdle

Run ==
    LET s == analyze(netsuite, today)
        rec == s.analyzed[1]
        send == s.should_inquire
    IN  /\ purchase_orders' = netsuite
        /\ should_inquire' = s.should_inquire
        /\ cadence_reason' = s.cadence_reason
        /\ days_since_last_inq' = s.days_since_last_inq
        /\ analyzed' = s.analyzed
        /\ stats' = s.stats
        /\ decision' = [state |-> rec.state, send |-> send, prev |-> prev_send]
        /\ due_sends' = IF send /\ rec.state = "Due" THEN due_sends + 1 ELSE due_sends
        /\ prev_send' = IF send THEN <<today>> ELSE prev_send
        /\ IF send
           THEN \E fmt \in {"mdy", "iso"} :
                    netsuite' = stamp_last_inq_sent_date_netsuite(
                                    netsuite, {rec.po_id}, isoformat(today), fmt)
           ELSE netsuite' = netsuite
        /\ ran' = TRUE
        /\ today' = today
        /\ UNCHANGED aggvars
        /\ UNCHANGED runvars

NextDay ==
    /\ today < LastRunDay
    /\ today' = today + 1
    /\ ran' = FALSE
    /\ UNCHANGED <<purchase_orders, should_inquire, cadence_reason,
                   days_since_last_inq, analyzed, stats, netsuite, decision,
                   due_sends, prev_send>>
    /\ UNCHANGED aggvars
    /\ UNCHANGED runvars

\* runs on non-decreasing days: any number of runs a day, days may be skipped
NextRuns == Run \/ NextDay

SpecRuns == InitRuns /\ [][NextRuns]_vars

\* one run every day
DailyRun == ~ran /\ Run

Midnight == ran /\ NextDay

NextDaily == DailyRun \/ Midnight

SpecDaily == InitRuns /\ [][NextDaily]_vars

-----------------------------------------------------------------------------
(* The pipeline of a run: the gathered purchase orders are analyzed, then  *)
(* cli.py builds the vendor briefs and drafts one message per brief, or    *)
(* main.py builds the vendor inquiries.                                    *)

\* the as-of date of the pipeline runs
PipelineDay == Day0 + 2

EarlyLine == Line(6, IntQty(5), IntQty(10), IntQty(0), IsoDate(Day0 - 10))

FarLine == Line(7, IntQty(5), IntQty(10), IntQty(0), MdyDate(Day0 + 30))

\* purchase orders as of PipelineDay: Past Due since Day0 - 10; Past Due
\* since Day0 with two eligible lines; Due on Day0 + 16; Normal; Unknown;
\* with and without vendor address (the one without has an undated line
\* too), some of them inquired about recently
PipelinePOs ==
    {[vendor_email |-> "a@vendor", lines |-> <<EarlyLine>>, last_inq_sent_date |-> NoneDate],
     [vendor_email |-> "a@vendor", lines |-> LinesOf({1, 3}), last_inq_sent_date |-> NoneDate],
     [vendor_email |-> "a@vendor", lines |-> LinesOf({3}), last_inq_sent_date |-> NoneDate],
     [vendor_email |-> "a@vendor", lines |-> <<FarLine>>, last_inq_sent_date |-> NoneDate],
     [vendor_email |-> "a@vendor", lines |-> LinesOf({4}), last_inq_sent_date |-> NoneDate],
     [vendor_email |-> "a@vendor", lines |-> LinesOf({1, 3}),
      last_inq_sent_date |-> MdyDate(PipelineDay - 1)],
     [vendor_email |-> "a@vendor", lines |-> LinesOf({3}),
      last_inq_sent_date |-> IsoDate(PipelineDay)],
     [vendor_email |-> "b@vendor", lines |-> LinesOf({3}), last_inq_sent_date |-> NoneDate],
     [vendor_email |-> "", lines |-> LinesOf({1, 3, 4}), last_inq_sent_date |-> NoneDate]}

\* the caps build_vendor_briefs is called with
PipelineCaps ==
    {DefaultCaps,
     Caps(1, default_max_pos_per_vendor, default_max_lines_per_po),
     Caps(default_max_vendors, 2, default_max_lines_per_po),
     Caps(default_max_vendors, default_max_pos_per_vendor, 1),
     Caps(1, 1, 1),
     Caps(0, 0, 0)}

\* open_po_lines_query orders the purchase orders by descending internal id;
\* a list in ascending order is as good an input of analyze
IdOfNext ==
    IF purchase_orders = << >> THEN {1, MaxPipelinePOs}
    ELSE IF purchase_orders[1].po_id = 1 THEN {Len(purchase_orders) + 1}
    ELSE {MaxPipelinePOs - Len(purchase_orders)}

InitPipeline ==
    /\ today = PipelineDay
    /\ purchase_orders = << >>
    /\ should_inquire = FALSE
    /\ cadence_reason = "None"
    /\ days_since_last_inq = << >>
    /\ analyzed = << >>
    /\ stats = InitStats(today)
    /\ netsuite = << >>
    /\ ran = FALSE
    /\ decision = NoDecision
    /\ due_sends = 0
    /\ prev_send = << >>
    /\ InitAgg
    /\ InitIdle

\* analyze reads one more purchase order
AnalyzeGathered ==
    /\ stage = "analyze"
    /\ Len(purchase_orders) < MaxPipelinePOs
    /\ \E p \in PipelinePOs, id \in IdOfNext :
        LET po == PO(id, po_number_of(id), p.vendor_email, p.lines,
                     p.last_inq_sent_date)
            s == LoopBody(Locals, po, today)
        IN  /\ purchase_orders' = Append(purchase_orders, po)
            /\ should_inquire' = s.should_inquire
            /\ cadence_reason' = s.cadence_reason
            /\ days_since_last_inq' = s.days_since_last_inq
            /\ analyzed' = s.analyzed
            /\ stats' = s.stats
    /\ UNCHANGED <<today, netsuite, ran, decision, due_sends, prev_send>>
    /\ UNCHANGED aggvars
    /\ UNCHANGED runvars

\* cli.py main, phase 2 and 3 without agent
CliRun ==
    /\ stage = "analyze"
    /\ \E c \in PipelineCaps :
        LET pack == build_vendor_briefs(analyzed, c.max_vendors,
                                        c.max_pos_per_vendor, c.max_lines_per_po)
        IN  /\ caps' = c
            /\ briefs_pack' = pack
            /\ drafts' = run_deterministic_mode(pack.briefs)
    /\ stage' = "cli"
    /\ UNCHANGED <<today, purchase_orders, should_inquire, cadence_reason,
                   days_since_last_inq, analyzed, stats, netsuite, ran, decision,
                   due_sends, prev_send, inquiries_pack>>
    /\ UNCHANGED runvars

\* main.py main
MainRun ==
    /\ stage = "analyze"
    /\ inquiries_pack' = build_vendor_inquiries_by_vendor(analyzed, today)
    /\ stage' = "main"
    /\ UNCHANGED <<today, purchase_orders, should_inquire, cadence_reason,
                   days_since_last_inq, analyzed, stats, netsuite, ran, decision,
                   due_sends, prev_send, caps, briefs_pack, drafts>>
    /\ UNCHANGED runvars

NextPipeline == AnalyzeGathered \/ CliRun \/ MainRun

SpecPipeline == InitPipeline /\ [][NextPipeline]_vars

-----------------------------------------------------------------------------
(* What the claims speak of, stated on the input *)

LineSet(lines) == {lines[k] : k \in DOMAIN lines}

Qty(ln, field) == to_int(ln[field])

\* open and not shipped in full
Actionable(ln) ==
    /\ Qty(ln, "qty_open") > 0
    /\ ~(Qty(ln, "qty_ordered") > 0
         /\ Qty(ln, "qty_on_shipments") >= Qty(ln, "qty_ordered"))

DueOf(ln) == parse_mmddyyyy(ln.line_due_date)

ActSet(po) == {ln \in LineSet(po.lines) : Actionable(ln)}

DatedAct(po) == {ln \in ActSet(po) : DueOf(ln) # << >>}

UndatedAct(po) == {ln \in ActSet(po) : DueOf(ln) = << >>}

EarliestDue(po) ==
    CHOOSE d \in {DueOf(ln)[1] : ln \in DatedAct(po)} :
        \A ln \in DatedAct(po) : d <= DueOf(ln)[1]

LineNos_of_set(S) == {ln.line_no : ln \in S}

LineNos(lines) == {lines[k].line_no : k \in DOMAIN lines}

\* the purchase order the loop has just processed, and its record
LastPO == purchase_orders[Len(purchase_orders)]

LastRec == analyzed[Len(analyzed)]

LastSentOf(po) == parse_mmddyyyy(po.last_inq_sent_date)

-----------------------------------------------------------------------------
(* C1: the state of a classified PO is Past Due iff its earliest due date  *)
(* d is before the as-of date t, Due iff t <= d <= t + 14, Normal iff      *)
(* d > t + 14.                                                             *)
C1_StateBoundaries ==
    \A k \in DOMAIN analyzed :
        LET po == purchase_orders[k]
            rec == analyzed[k]
        IN  DatedAct(po) # {} =>
                LET d == EarliestDue(po)
                    t == today
                IN  /\ rec.state = "Past Due" <=> d < t
                    /\ rec.state = "Due" <=> (t <= d /\ d <= t + 14)
                    /\ rec.state = "Normal" <=> d > t + 14

\* one PO due on t - 1 is Past Due next to one due on t + 15 that is Normal
C1_Witness ==
    \E j, k \in DOMAIN analyzed :
        /\ DatedAct(purchase_orders[j]) # {}
        /\ EarliestDue(purchase_orders[j]) = today - 1
        /\ analyzed[j].state = "Past Due"
        /\ DatedAct(purchase_orders[k]) # {}
        /\ EarliestDue(purchase_orders[k]) = today + 15
        /\ analyzed[k].state = "Normal"

(* C2: for a PO with a dated actionable line, the eligible lines are       *)
(* exactly its actionable lines with a parseable due date <= as_of + 14,   *)
(* whatever the PO state; no undated or fully shipped line is eligible.    *)
C2_EligibleLines ==
    \A k \in DOMAIN analyzed :
        LET po == purchase_orders[k]
            rec == analyzed[k]
            elig == LineSet(rec.eligible_lines_for_inquiry)
        IN  /\ DatedAct(po) # {} =>
                elig = {ln \in DatedAct(po) : DueOf(ln)[1] <= today + 14}
            /\ \A ln \in elig :
                /\ DueOf(ln) # << >>
                /\ ~(Qty(ln, "qty_ordered") > 0
                     /\ Qty(ln, "qty_on_shipments") >= Qty(ln, "qty_ordered"))

\* a Past Due PO holding an actionable line due after as_of + 14, left out
C2_Witness ==
    \E k \in DOMAIN analyzed :
        /\ analyzed[k].state = "Past Due"
        /\ analyzed[k].eligible_lines_for_inquiry # << >>
        /\ \E ln \in DatedAct(purchase_orders[k]) :
            /\ DueOf(ln)[1] > today + 14
            /\ ln \notin LineSet(analyzed[k].eligible_lines_for_inquiry)

(* C3: for a classified PO the action is inquire_vendor when there is an   *)
(* eligible line (the undated lines are still reported), else              *)
(* notify_buyer_missing_due_dates when an actionable line has no due date, *)
(* else none.                                                              *)
C3_RecommendedAction ==
    \A k \in DOMAIN analyzed :
        LET po == purchase_orders[k]
            rec == analyzed[k]
        IN  rec.state # "Unknown" =>
                /\ LineNos(rec.missing_due_date_lines) = LineNos_of_set(UndatedAct(po))
                /\ rec.recommended_action =
                     IF rec.eligible_lines_for_inquiry # << >> THEN "inquire_vendor"
                     ELSE IF UndatedAct(po) # {} THEN "notify_buyer_missing_due_dates"
                     ELSE "none"

\* an eligible line next to an undated one: inquire_vendor, the undated reported
C3_Witness ==
    \E k \in DOMAIN analyzed :
        /\ analyzed[k].eligible_lines_for_inquiry # << >>
        /\ UndatedAct(purchase_orders[k]) # {}
        /\ analyzed[k].missing_due_date_lines # << >>
        /\ analyzed[k].recommended_action = "inquire_vendor"

\* the records of the purchase orders without a dated actionable line
C4_UnknownRecords ==
    /\ Len(analyzed) = Len(purchase_orders)
    /\ \A k \in DOMAIN analyzed :
        LET po == purchase_orders[k]
            rec == analyzed[k]
        IN  /\ rec.po_id = po.po_id
            /\ DatedAct(po) = {} =>
                /\ rec.state = "Unknown"
                /\ rec.earliest_due_date = NoneDate
                /\ rec.recommended_action = "notify_buyer_missing_due_dates"
                /\ rec.eligible_lines_for_inquiry = << >>
            /\ rec.earliest_due_date = NoneDate => rec.state = "Unknown"

\* reading such a purchase order adds one record and one to the counter
C4_UnknownStep ==
    (Len(purchase_orders') = Len(purchase_orders) + 1
        /\ DatedAct(purchase_orders'[Len(purchase_orders')]) = {})
    => /\ stats'.needs_buyer_data_count = stats.needs_buyer_data_count + 1
       /\ Len(analyzed') = Len(analyzed) + 1

(* C4: a PO without a dated actionable line is recorded as Unknown, with   *)
(* no earliest due date, action notify_buyer_missing_due_dates, no         *)
(* eligible line, and adds exactly one to needs_buyer_data_count; every PO *)
(* read has its record; only an Unknown record lacks an earliest due date. *)
C4_Unknown == [][C4_UnknownStep]_vars /\ []C4_UnknownRecords

\* a PO without lines and a PO whose lines are all closed or shipped, both
\* recorded and counted
C4_Witness ==
    /\ Len(analyzed) = 2
    /\ purchase_orders[1].lines = << >>
    /\ purchase_orders[2].lines # << >>
    /\ ActSet(purchase_orders[2]) = {}
    /\ analyzed[1].state = "Unknown"
    /\ analyzed[2].state = "Unknown"
    /\ stats.needs_buyer_data_count = 2

\* an open line with 10 ordered and 10 or more on shipments
FullyShippedTen(ln) ==
    /\ Qty(ln, "qty_open") > 0
    /\ Qty(ln, "qty_ordered") = 10
    /\ Qty(ln, "qty_on_shipments") >= 10

\* the purchase order with 9 on shipments on its k-th line
WithNineShipped(po, k) == [po EXCEPT !.lines[k].qty_on_shipments = IntQty(9)]

(* C5: a line is actionable iff qty_open > 0 and not (qty_ordered > 0 and  *)
(* qty_on_shipments >= qty_ordered); a line with 10 ordered and 10 or more *)
(* on shipments adds nothing to the state, the earliest due date, the      *)
(* missing lines or the eligible lines, and with 9 on shipments it counts. *)
C5_ActionableLines ==
    \A k \in DOMAIN analyzed :
        LET po == purchase_orders[k]
            rec == analyzed[k]
        IN  /\ rec.open_line_count = Cardinality(ActSet(po))
            /\ LineSet(rec.eligible_lines_for_inquiry) \subseteq ActSet(po)
            /\ LineNos(rec.missing_due_date_lines) = LineNos_of_set(UndatedAct(po))
            /\ rec.state = "Unknown" <=> DatedAct(po) = {}
            /\ DatedAct(po) # {} => rec.earliest_due_date = IsoDate(EarliestDue(po))
            /\ \A n \in DOMAIN po.lines :
                FullyShippedTen(po.lines[n]) =>
                    LET nine == WithNineShipped(po, n)
                        rec9 == analyze(<<nine>>, today).analyzed[1]
                    IN  /\ po.lines[n].line_no \notin
                              LineNos(rec.eligible_lines_for_inquiry)
                              \cup LineNos(rec.missing_due_date_lines)
                        /\ rec9.open_line_count = rec.open_line_count + 1
                        /\ rec9.state # "Unknown"
                        /\ nine.lines[n] \in LineSet(rec9.eligible_lines_for_inquiry)

\* a line shipped in full is due before the earliest due date of its PO
C5_Witness ==
    \E k \in DOMAIN analyzed :
        /\ DatedAct(purchase_orders[k]) # {}
        /\ \E ln \in LineSet(purchase_orders[k].lines) :
            /\ FullyShippedTen(ln)
            /\ DueOf(ln)[1] < EarliestDue(purchase_orders[k])
            /\ analyzed[k].earliest_due_date = IsoDate(EarliestDue(purchase_orders[k]))

\* other ways to hand over the same actionable lines
Reverse(s) == [k \in 1..Len(s) |-> s[Len(s) + 1 - k]]

Rotate(s) == IF s = << >> THEN s ELSE Append(Tail(s), Head(s))

ExtraShipped == Line(8, IntQty(5), IntQty(10), IntQty(12), MdyDate(Day0 - 30))

ExtraClosed == Line(9, NoneQty, IntQty(10), IntQty(0), MdyDate(Day0 - 30))

Variants(po) ==
    {[po EXCEPT !.lines = v] :
        v \in {po.lines, Reverse(po.lines), Rotate(po.lines),
               SelectSeq(po.lines, Actionable),
               <<ExtraShipped>> \o po.lines \o <<ExtraClosed>>}}

Core(rec) ==
    [state |-> rec.state,
     earliest_due_date |-> rec.earliest_due_date,
     eligible |-> LineSet(rec.eligible_lines_for_inquiry),
     recommended_action |-> rec.recommended_action]

(* C6: state, earliest due date, eligible lines (as a set) and action of a *)
(* PO depend on its actionable lines only: they are the same at any        *)
(* position of the list, after any other PO, with the lines in another     *)
(* order, and with non-actionable lines added or removed.                  *)
C6_ActionableLinesOnly ==
    \A k \in DOMAIN analyzed :
        \A q \in Variants(purchase_orders[k]) :
            Core(analyze(<<q>>, today).analyzed[1]) = Core(analyzed[k])

\* the second PO of a list, after a PO that was to be inquired about, with
\* two dated actionable lines and a line that is not actionable
C6_Witness ==
    /\ Len(analyzed) = 2
    /\ analyzed[1].recommended_action = "inquire_vendor"
    /\ Cardinality(DatedAct(purchase_orders[2])) >= 2
    /\ ActSet(purchase_orders[2]) # LineSet(purchase_orders[2].lines)
    /\ analyzed[2].state = "Due"

(* C7: for a Due PO with eligible lines the cadence decision is send,      *)
(* due_first_touch, iff last_sent is None or before earliest_due - 14, and *)
(* suppress, due_already_touched, otherwise.                               *)
C7_DueCadence ==
    (Len(analyzed) > 0
        /\ LastRec.state = "Due"
        /\ LastRec.eligible_lines_for_inquiry # << >>)
    => LET last == LastSentOf(LastPO)
           start == EarliestDue(LastPO) - 14
       IN  IF last = << >> \/ last[1] < start
           THEN should_inquire /\ cadence_reason = "due_first_touch"
           ELSE ~should_inquire /\ cadence_reason = "due_already_touched"

\* last_sent on the first day of the due-window: suppressed
C7_Witness ==
    /\ Len(analyzed) > 0
    /\ LastRec.state = "Due"
    /\ LastRec.eligible_lines_for_inquiry # << >>
    /\ LastSentOf(LastPO) = <<EarliestDue(LastPO) - 14>>
    /\ ~should_inquire
    /\ cadence_reason = "due_already_touched"

(* C8: for a Past Due PO with eligible lines the cadence decision is send, *)
(* past_due_weekly, iff last_sent is None or at least 7 days before today, *)
(* and suppress, past_due_waiting_week, otherwise.                         *)
C8_PastDueCadence ==
    (Len(analyzed) > 0
        /\ LastRec.state = "Past Due"
        /\ LastRec.eligible_lines_for_inquiry # << >>)
    => LET last == LastSentOf(LastPO)
       IN  IF last = << >> \/ today - last[1] >= 7
           THEN should_inquire /\ cadence_reason = "past_due_weekly"
           ELSE ~should_inquire /\ cadence_reason = "past_due_waiting_week"

\* last_sent exactly 7 days ago: sent
C8_Witness ==
    /\ Len(analyzed) > 0
    /\ LastRec.state = "Past Due"
    /\ LastRec.eligible_lines_for_inquiry # << >>
    /\ LastSentOf(LastPO) = <<today - 7>>
    /\ should_inquire
    /\ cadence_reason = "past_due_weekly"

(* C9: over runs on non-decreasing days, with the run day stamped at every *)
(* 'send' decision, at most one 'send' is decided while the PO is Due.     *)
C9_OneSendPerDueWindow == due_sends <= 1

\* a run on a later day of the due-window, after the one send: suppressed
C9_Witness ==
    /\ ran
    /\ due_sends = 1
    /\ decision.state = "Due"
    /\ ~decision.send
    /\ decision.prev # << >>
    /\ today > decision.prev[1]
    /\ cadence_reason = "due_already_touched"

(* C10: over daily runs, with the run day stamped at every 'send'          *)
(* decision, a Past Due run that follows a 'send' decides 'send' iff that  *)
(* send is at least 7 days back: never sooner, and on the 7th day.         *)
C10_WeeklyWhenPastDue ==
    (ran /\ decision.state = "Past Due" /\ decision.prev # << >>)
    => (decision.send <=> today - decision.prev[1] >= 7)

\* a Past Due send on the 7th day after the previous send
C10_Witness ==
    /\ ran
    /\ decision.state = "Past Due"
    /\ decision.send
    /\ decision.prev = <<today - 7>>

-----------------------------------------------------------------------------
(* The claims on the pipeline *)

\* the cadence decision taken for a purchase order of its own
DecisionOf(po) == LoopBody(InitLocals(today), po, today)

Suppressed(po) ==
    DecisionOf(po).cadence_reason \in {"due_already_touched", "past_due_waiting_week"}

PosOf(b) == {b.pos[j] : j \in DOMAIN b.pos}

Briefs == {briefs_pack.briefs[k] : k \in DOMAIN briefs_pack.briefs}

Inquiries == {inquiries_pack.inquiries[k] : k \in DOMAIN inquiries_pack.inquiries}

Drafts == {drafts[k] : k \in DOMAIN drafts}

IdsOf(seq) == {seq[j] : j \in DOMAIN seq}

\* the purchase order is named in a brief, in a drafted message or in a
\* vendor inquiry
Contacted(po) ==
    \/ \E b \in Briefs :
          \/ po.po_id \in IdsOf(b.po_ids)
          \/ \E p \in PosOf(b) : p.po_number = po.po_number
    \/ \E d \in Drafts :
          \/ po.po_id \in IdsOf(d.po_ids)
          \/ \E j \in DOMAIN d.body : d.body[j].po_number = po.po_number
    \/ \E i \in Inquiries :
          \/ po.po_id \in IdsOf(i.po_ids)
          \/ \E j \in DOMAIN i.body : i.body[j].po_number = po.po_number

(* C11: a PO whose cadence decision is 'suppress' (due_already_touched or  *)
(* past_due_waiting_week) is in no vendor brief, drafted message or vendor *)
(* inquiry of the run.                                                     *)
C11_SuppressedNotContacted ==
    \A k \in DOMAIN purchase_orders :
        Suppressed(purchase_orders[k]) => ~Contacted(purchase_orders[k])

\* the same purchase order with another last inquiry date
WithLastSent(po, d) == [po EXCEPT !.last_inq_sent_date = d]

PipelineLastSent ==
    {NoneDate, BadDate, MdyDate(PipelineDay - 1), IsoDate(PipelineDay),
     MdyDate(PipelineDay - 30), IsoDate(PipelineDay + 1)}

\* the brief, or the inquiry, of the vendor of po names po
InVendorBrief(po) ==
    \E b \in Briefs :
        /\ b.vendor_email = po.vendor_email
        /\ \E p \in PosOf(b) : p.po_number = po.po_number

InVendorInquiry(po) ==
    \E i \in Inquiries :
        /\ i.vendor_email = po.vendor_email
        /\ \E p \in PosOf(i) : p.po_id = po.po_id

(* C12: recommended_action is 'inquire_vendor' iff the eligible lines are  *)
(* non-empty, whatever last_inq_sent_date holds; a PO whose cadence        *)
(* decision is 'suppress' is marked 'inquire_vendor' and is aggregated     *)
(* into the brief (cli.py, caps not reached) and the inquiry (main.py) of  *)
(* its vendor.                                                             *)
C12_CadenceDoesNotGate ==
    /\ \A k \in DOMAIN analyzed :
          analyzed[k].recommended_action = "inquire_vendor"
              <=> analyzed[k].eligible_lines_for_inquiry # << >>
    /\ (stage = "analyze" /\ analyzed # << >>) =>
          \A d \in PipelineLastSent :
              LET other == DecisionOf(WithLastSent(LastPO, d)).analyzed[1]
              IN  /\ other.recommended_action = LastRec.recommended_action
                  /\ other.eligible_lines_for_inquiry
                         = LastRec.eligible_lines_for_inquiry
    /\ stage # "analyze" =>
          \A k \in DOMAIN analyzed :
              LET po == purchase_orders[k]
              IN  (Suppressed(po) /\ po.vendor_email # "") =>
                      /\ analyzed[k].recommended_action = "inquire_vendor"
                      /\ (stage = "cli" /\ caps = DefaultCaps) => InVendorBrief(po)
                      /\ stage = "main" => InVendorInquiry(po)

\* a Past Due PO inquired about the day before is in the brief of its vendor
C12_Witness ==
    /\ stage = "cli"
    /\ caps = DefaultCaps
    /\ \E k \in DOMAIN purchase_orders :
          /\ DecisionOf(purchase_orders[k]).cadence_reason = "past_due_waiting_week"
          /\ ~DecisionOf(purchase_orders[k]).should_inquire
          /\ analyzed[k].days_since_last_inquiry = <<1>>
          /\ InVendorBrief(purchase_orders[k])

-----------------------------------------------------------------------------
(* The claims on a last inquiry date after the as-of date *)

\* the PO read last is Due or Past Due with eligible lines, and its last
\* inquiry date lies after the as-of date
FutureLastSent ==
    /\ analyzed # << >>
    /\ LastRec.state \in {"Due", "Past Due"}
    /\ LastRec.eligible_lines_for_inquiry # << >>
    /\ LastSentOf(LastPO) # << >>
    /\ LastSentOf(LastPO)[1] > today

\* the decision taken for the PO read last, had it no last inquiry date
DecisionWithoutLastSent ==
    LoopBody(InitLocals(today), [LastPO EXCEPT !.last_inq_sent_date = NoneDate], today)

(* C13: for a Due or Past Due PO with eligible lines and a last inquiry    *)
(* date after the as-of date, the cadence decision is the one for          *)
(* last_sent = None: 'send', with reason due_first_touch or                *)
(* past_due_weekly.                                                        *)
C13_FutureAsNone ==
    FutureLastSent =>
        /\ should_inquire = DecisionWithoutLastSent.should_inquire
        /\ cadence_reason = DecisionWithoutLastSent.cadence_reason
        /\ should_inquire
        /\ cadence_reason =
               IF LastRec.state = "Due" THEN "due_first_touch" ELSE "past_due_weekly"

(* C13 amended: for such a PO days_since_last_inquiry is None, and the     *)
(* cadence policy compares the future date itself: the decision is         *)
(* 'suppress', with reason due_already_touched or past_due_waiting_week.   *)
C13_FutureSuppresses ==
    FutureLastSent =>
        /\ LastRec.days_since_last_inquiry = << >>
        /\ ~should_inquire
        /\ cadence_reason =
               IF LastRec.state = "Due" THEN "due_already_touched"
               ELSE "past_due_waiting_week"

\* a Past Due PO whose last inquiry is dated tomorrow
C13_Witness ==
    /\ FutureLastSent
    /\ LastRec.state = "Past Due"
    /\ LastSentOf(LastPO) = <<today + 1>>
    /\ cadence_reason = "past_due_waiting_week"
    /\ DecisionWithoutLastSent.cadence_reason = "past_due_weekly"

(* C14: in every analyzed record days_since_last_inquiry is None or an     *)
(* integer >= 0, and it is None for a PO with a state other than Unknown   *)
(* whose last inquiry date lies after the as-of date.                      *)
C14_DaysSinceNotNegative ==
    \A k \in DOMAIN analyzed :
        LET days == analyzed[k].days_since_last_inquiry
            last_sent == LastSentOf(purchase_orders[k])
        IN  /\ days = << >> \/ (Len(days) = 1 /\ days[1] \in Nat)
            /\ (analyzed[k].state # "Unknown" /\ last_sent # << >>
                    /\ last_sent[1] > today)
                   => days = << >>

\* after a PO inquired about six days ago, a PO whose last inquiry is dated
\* in two days
C14_Witness ==
    /\ Len(analyzed) = 2
    /\ analyzed[1].days_since_last_inquiry = <<6>>
    /\ analyzed[2].state # "Unknown"
    /\ LastSentOf(purchase_orders[2]) = <<today + 2>>
    /\ analyzed[2].days_since_last_inquiry = << >>

-----------------------------------------------------------------------------
(* The claims on build_vendor_briefs and the deterministic templater *)

Included(k) ==
    /\ analyzed[k].recommended_action = "inquire_vendor"
    /\ analyzed[k].vendor_email # ""

\* the 'inquire_vendor' POs left out for want of a vendor address
MissingEmail ==
    {k \in DOMAIN analyzed :
        /\ analyzed[k].recommended_action = "inquire_vendor"
        /\ analyzed[k].vendor_email = ""}

(* C15: build_vendor_briefs puts a PO in a brief iff its action is         *)
(* 'inquire_vendor' and its vendor_email is non-empty (caps not reached),  *)
(* and the returned stats hold a counter with the number of                *)
(* 'inquire_vendor' POs left out because their vendor_email is missing.    *)
C15_MissingEmailCounted ==
    stage = "cli" =>
        /\ caps = DefaultCaps =>
              \A k \in DOMAIN analyzed :
                  (\E b \in Briefs : \E p \in PosOf(b) :
                        p.po_number = analyzed[k].po_number)
                      <=> Included(k)
        /\ \E f \in DOMAIN briefs_pack.stats :
              briefs_pack.stats[f] = Cardinality(MissingEmail)

\* the analyzed POs build_vendor_briefs takes up for the vendor address
OfVendor(vendor_email) ==
    {k \in DOMAIN analyzed : Included(k) /\ analyzed[k].vendor_email = vendor_email}

\* the ids of the POs listed in the pos of a brief
RetainedIds(b) ==
    {analyzed[k].po_id : k \in {j \in OfVendor(b.vendor_email) :
        \E p \in PosOf(b) : p.po_number = analyzed[j].po_number}}

(* C16: when a vendor has more 'inquire_vendor' POs than                   *)
(* max_pos_per_vendor, its brief holds exactly max_pos_per_vendor POs and  *)
(* exactly max_pos_per_vendor po_ids, each the po_id of a PO retained in   *)
(* the brief.                                                              *)
C16_IdsOfRetainedPOs ==
    stage = "cli" =>
        \A b \in Briefs :
            Cardinality(OfVendor(b.vendor_email)) > caps.max_pos_per_vendor =>
                /\ Len(b.pos) = caps.max_pos_per_vendor
                /\ Len(b.po_ids) = caps.max_pos_per_vendor
                /\ IdsOf(b.po_ids) \subseteq RetainedIds(b)

\* the vendor addresses with at least one PO taken up
VendorAddresses == {analyzed[k].vendor_email : k \in {j \in DOMAIN analyzed : Included(j)}}

\* the j-th smallest element of a set of positions
Nth(S, j) == CHOOSE k \in S : Cardinality({i \in S : i < k}) = j - 1

\* the vendor address that appears as the j-th in the analysis
NthVendor(j) ==
    CHOOSE v \in VendorAddresses :
        Cardinality({w \in VendorAddresses :
            Nth(OfVendor(w), 1) < Nth(OfVendor(v), 1)}) = j - 1

AtMost(n, cap) == IF n < cap THEN n ELSE cap

(* C17: build_vendor_briefs returns the briefs of the first max_vendors    *)
(* vendor addresses in order of first appearance, each with the first      *)
(* max_pos_per_vendor POs of the vendor in analysis order, each PO with    *)
(* its first max_lines_per_po eligible lines; vendor_count +               *)
(* capped_vendors is the number of vendor addresses with an included PO.   *)
C17_Caps ==
    stage = "cli" =>
        LET briefs == briefs_pack.briefs
        IN  /\ Len(briefs) = AtMost(Cardinality(VendorAddresses), caps.max_vendors)
            /\ briefs_pack.stats.vendor_count + briefs_pack.stats.capped_vendors
                   = Cardinality(VendorAddresses)
            /\ \A j \in DOMAIN briefs :
                  LET b == briefs[j]
                      mine == OfVendor(b.vendor_email)
                  IN  /\ b.vendor_email = NthVendor(j)
                      /\ Len(b.pos) = AtMost(Cardinality(mine), caps.max_pos_per_vendor)
                      /\ \A i \in DOMAIN b.pos :
                            LET rec == analyzed[Nth(mine, i)]
                                eligible == rec.eligible_lines_for_inquiry
                            IN  /\ b.pos[i].po_number = rec.po_number
                                /\ b.pos[i].lines =
                                       SubSeq(eligible, 1,
                                           AtMost(Len(eligible), caps.max_lines_per_po))

\* caps of one: two vendors, the first with two POs, its first PO with two
\* eligible lines
C17_Witness ==
    /\ stage = "cli"
    /\ caps = Caps(1, 1, 1)
    /\ Cardinality(VendorAddresses) = 2
    /\ briefs_pack.stats.capped_vendors = 1
    /\ Len(briefs_pack.briefs) = 1
    /\ Cardinality(OfVendor(briefs_pack.briefs[1].vendor_email)) = 2
    /\ Len(briefs_pack.briefs[1].pos) = 1
    /\ Len(briefs_pack.briefs[1].pos[1].lines) = 1
    /\ \E k \in DOMAIN analyzed :
          /\ analyzed[k].po_number = briefs_pack.briefs[1].pos[1].po_number
          /\ Len(analyzed[k].eligible_lines_for_inquiry) = 2

-----------------------------------------------------------------------------
(* The claims on the order of the POs of a vendor *)

StateRank(state) == CASE state = "Past Due" -> 0 [] state = "Due" -> 1 [] OTHER -> 2

\* p may stand before q: by state, then by earliest due date (a missing
\* date last), then by PO number
InOrder(p, q) ==
    LET dp == p.earliest_due_date
        dq == q.earliest_due_date
    IN  \/ StateRank(p.state) < StateRank(q.state)
        \/ /\ StateRank(p.state) = StateRank(q.state)
           /\ \/ dp.fmt # "none" /\ dq.fmt = "none"
              \/ dp.fmt # "none" /\ dq.fmt # "none" /\ dp.day < dq.day
              \/ /\ dp.fmt = dq.fmt
                 /\ dp.day = dq.day
                 /\ (p.po_number = q.po_number \/ str_lt(p.po_number, q.po_number))

Ordered(pos) == \A i, j \in DOMAIN pos : i < j => InOrder(pos[i], pos[j])

(* C18: in every inquiry of build_vendor_inquiries_by_vendor the POs are   *)
(* the 'inquire_vendor' POs of the vendor (a Normal PO is not among them), *)
(* ordered by rank (Past Due, Due, other), then by ascending earliest due  *)
(* date (missing last), then by ascending PO number; the body lists them   *)
(* in that order.                                                          *)
C18_InquiryOrder ==
    stage = "main" =>
        \A i \in Inquiries :
            /\ Ordered(i.pos)
            /\ Len(i.pos) = Cardinality(OfVendor(i.vendor_email))
            /\ {p.po_id : p \in PosOf(i)}
                   = {analyzed[k].po_id : k \in OfVendor(i.vendor_email)}
            /\ \A p \in PosOf(i) : p.state \in {"Past Due", "Due"}
            /\ Len(i.body) = Len(i.pos)
            /\ \A j \in DOMAIN i.pos : i.body[j].po_number = i.pos[j].po_number

\* analyzed as Past Due (Day0), Due (Day0 + 16), Past Due (Day0 - 10), the
\* POs of the vendor come out as Past Due (Day0 - 10), Past Due (Day0), Due
C18_Witness ==
    /\ stage = "main"
    /\ Len(analyzed) = 3
    /\ analyzed[1].state = "Past Due" /\ analyzed[1].earliest_due_date = IsoDate(Day0)
    /\ analyzed[2].state = "Due" /\ analyzed[2].earliest_due_date = IsoDate(Day0 + 16)
    /\ analyzed[3].state = "Past Due" /\ analyzed[3].earliest_due_date = IsoDate(Day0 - 10)
    /\ Len(inquiries_pack.inquiries) = 1
    /\ LET pos == inquiries_pack.inquiries[1].pos
       IN  /\ Len(pos) = 3
           /\ pos[1].po_id = analyzed[3].po_id
           /\ pos[2].po_id = analyzed[1].po_id
           /\ pos[3].po_id = analyzed[2].po_id

(* C19: the body of the deterministic templater of the CLI lists the POs   *)
(* of the vendor in the sort order of the aggregator: Past Due before Due, *)
(* within a state by ascending earliest due date, then by PO number,       *)
(* whatever order the POs were analyzed in.                                *)
C19_BodyOrder ==
    stage = "cli" => \A d \in Drafts : Ordered(d.body)

NumberIn(pos, state) == Cardinality({j \in DOMAIN pos : pos[j].state = state})

(* C20: the subject of the deterministic templater is 'N Past Due, M Due'  *)
(* when the brief holds both Past Due and Due POs, 'N Past Due' when it    *)
(* holds Past Due POs only, and 'M Due Soon' otherwise, N and M being the  *)
(* numbers of Past Due and Due POs in the PO list of the brief, truncated  *)
(* or not.                                                                 *)
C20_SubjectCounts ==
    stage = "cli" =>
        \A k \in DOMAIN drafts :
            LET pos == briefs_pack.briefs[k].pos
                n == NumberIn(pos, "Past Due")
                m == NumberIn(pos, "Due")
                subject == drafts[k].subject
            IN  /\ (n > 0 /\ m > 0) =>
                      /\ subject.text = "Update Requested: Past Due, Due"
                      /\ subject.past_due = <<n>>
                      /\ subject.due = <<m>>
                /\ (n > 0 /\ m = 0) =>
                      /\ subject.text = "Update Requested: Past Due"
                      /\ subject.past_due = <<n>>
                /\ n = 0 =>
                      /\ subject.text = "Confirmation: Due Soon"
                      /\ subject.due = <<m>>

-----------------------------------------------------------------------------
(* The claims on the run statistics and on what a PO takes over from the   *)
(* POs before it                                                           *)

\* total number of raw lines of the input
RawLineCount == sum([k \in DOMAIN purchase_orders |-> Len(purchase_orders[k].lines)])

(* C23: the run statistics of analyze are the same for every permutation   *)
(* of the input list; po_count is the number of input POs and line_count   *)
(* the number of raw lines of all POs, actionable or not.                  *)
C23_StatsOrderIndependent ==
    /\ stats.po_count = Len(purchase_orders)
    /\ stats.line_count = RawLineCount
    /\ analyze(Reverse(purchase_orders), today).stats = stats
    /\ analyze(Rotate(purchase_orders), today).stats = stats

\* two POs in different states, with lines that are not actionable
C23_Witness ==
    /\ Len(purchase_orders) = 2
    /\ analyzed[1].state = "Due"
    /\ analyzed[2].state = "Unknown"
    /\ stats.due_count = 1
    /\ stats.needs_buyer_data_count = 1
    /\ stats.line_count > analyzed[1].open_line_count + analyzed[2].open_line_count
    /\ analyze(Reverse(purchase_orders), today).analyzed[1].state = "Unknown"

(* C25: a PO whose last_inq_sent_date is absent or unparsable, and any PO  *)
(* classified through the Unknown branch, has days_since_last_inquiry =    *)
(* None, whatever the POs before it in the list.                           *)
C25_DaysSinceOwnDateOnly ==
    \A k \in DOMAIN analyzed :
        (LastSentOf(purchase_orders[k]) = << >> \/ analyzed[k].state = "Unknown")
            => analyzed[k].days_since_last_inquiry = << >>

\* the records of the POs with eligible lines
WithEligible == {k \in DOMAIN analyzed : analyzed[k].eligible_lines_for_inquiry # << >>}

CadenceReasons ==
    {"due_first_touch", "due_already_touched", "past_due_weekly", "past_due_waiting_week"}

(* C26: for every PO with eligible lines, the analyzed record and the PO   *)
(* entry of the vendor brief carry a cadence_reason equal to the reason    *)
(* the cadence policy computed for that PO, never a missing value.         *)
C26_ReasonCarried ==
    /\ \A k \in WithEligible :
        /\ "cadence_reason" \in DOMAIN analyzed[k]
        /\ analyzed[k].cadence_reason = DecisionOf(purchase_orders[k]).cadence_reason
    /\ \A b \in Briefs : \A p \in PosOf(b) :
        \A k \in OfVendor(b.vendor_email) :
            analyzed[k].po_number = p.po_number =>
                /\ p.cadence_reason \in CadenceReasons
                /\ p.cadence_reason = DecisionOf(purchase_orders[k]).cadence_reason

\* the PO entries of all briefs
BriefEntries == UNION {PosOf(b) : b \in Briefs}

(* C27: eligible_lines_for_inquiry is non-empty iff the state is Due or    *)
(* Past Due; hence eligible_for_inquiry_count = due_count + past_due_count,*)
(* only Due and Past Due POs are 'inquire_vendor', and the unknown_pos     *)
(* summary of every vendor brief is 0.                                     *)
C27_EligibleIffDueOrPastDue ==
    /\ \A k \in DOMAIN analyzed :
        /\ analyzed[k].eligible_lines_for_inquiry # << >>
              <=> analyzed[k].state \in {"Due", "Past Due"}
        /\ analyzed[k].recommended_action = "inquire_vendor"
              => analyzed[k].state \in {"Due", "Past Due"}
    /\ stats.eligible_for_inquiry_count = stats.due_count + stats.past_due_count
    /\ \A b \in Briefs : b.summary.unknown_pos = 0
    /\ \A p \in BriefEntries : p.state \in {"Due", "Past Due"}

\* a Normal PO, an Unknown PO and a Due PO analyzed, the Due one in a brief
C27_Witness ==
    /\ stage = "cli"
    /\ \E k \in DOMAIN analyzed : analyzed[k].state = "Normal"
    /\ \E k \in DOMAIN analyzed : analyzed[k].state = "Unknown"
    /\ \E b \in Briefs : b.summary.due_pos = 1 /\ b.summary.unknown_pos = 0
    /\ stats.eligible_for_inquiry_count = 1

\* the records the buyer has to complete: no due date at all, or some
\* actionable line without one
NeedsBuyerData ==
    {k \in DOMAIN analyzed :
        analyzed[k].state = "Unknown" \/ analyzed[k].missing_due_date_lines # << >>}

(* C30: after every iteration of the analyze loop, normal_count +          *)
(* due_count + past_due_count + the number of Unknown records = po_count = *)
(* the number of analyzed records, and needs_buyer_data_count counts each  *)
(* PO at most once, so it is at most po_count.                             *)
C30_OneBucketPerPO ==
    /\ stats.normal_count + stats.due_count + stats.past_due_count
         + count_in_state(analyzed, "Unknown") = stats.po_count
    /\ stats.po_count = Len(analyzed)
    /\ stats.needs_buyer_data_count = Cardinality(NeedsBuyerData)
    /\ stats.needs_buyer_data_count <= stats.po_count

\* an Unknown PO with an undated line and a classified PO with one
C30_Witness ==
    /\ Len(analyzed) = 2
    /\ analyzed[1].state = "Unknown"
    /\ analyzed[1].missing_due_date_lines # << >>
    /\ analyzed[2].state \in {"Due", "Past Due"}
    /\ analyzed[2].missing_due_date_lines # << >>
    /\ stats.needs_buyer_data_count = 2

-----------------------------------------------------------------------------
(* A drafting run: cli.py main or scheduled_run.py run_scheduled_job, from *)
(* the data gathering to the exit code, a step per action.  The language   *)
(* model behind Runner.run, the Graph API and the rate limiter are the     *)
(* environment: what they answer is chosen freely.                         *)

\* most calls of create_draft_and_record in one run of the model
MaxToolCalls == 2

\* run_agent_for_one_vendor, run_one_vendor: max_retries: int = 5
max_retries == 5

range_inclusive(n) == 0 .. n

\* Python's range(n)
range(n) == 0 .. n - 1

\* MAX_EMAILS, when neither --max-emails nor the environment sets it
default_max_emails == 9999

\* HTTP status codes Graph answers the POST of a draft with
DraftResponses == {201, 500}

\* HTTP status codes Graph answers sendMail with
SendResponses == {202, 500}

\* emailer/msgraph_sender.py: DRY_RUN logs the draft; else the draft exists
\* in Outlook iff Graph answered 201
create_draft_msgraph(dry_run, response) ==
    IF dry_run THEN [ok |-> TRUE, dry_run |-> TRUE, skipped |-> FALSE]
    ELSE IF response = 201 THEN [ok |-> TRUE, dry_run |-> FALSE, skipped |-> FALSE]
    ELSE [ok |-> FALSE, dry_run |-> FALSE, skipped |-> FALSE]

\* the same, stamping after a dry run as well
create_draft_and_record_stamp_any_ok(to, po_ids, draft_enabled, stamp_enabled, dry_run, response) ==
    IF ~draft_enabled
    THEN [result |-> [draft |-> [ok |-> FALSE, dry_run |-> FALSE, skipped |-> TRUE],
                      stamp |-> << >>, skipped |-> TRUE, po_ids |-> po_ids],
          created |-> << >>, stamped |-> << >>]
    ELSE LET draft_result == create_draft_msgraph(dry_run, response)
             stamps == stamp_enabled /\ draft_result.ok
         IN  [result |-> [draft |-> draft_result,
                          stamp |-> IF stamps THEN <<[ok |-> TRUE, updated |-> po_ids]>>
                                    ELSE << >>,
                          skipped |-> FALSE, po_ids |-> po_ids],
              created |-> IF draft_result.ok /\ ~draft_result.dry_run
                          THEN <<[to |-> to]>> ELSE << >>,
              stamped |-> IF stamps THEN <<po_ids>> ELSE << >>]

\* what the call returns (result), the drafts it creates in Outlook and the
\* po_ids lists it hands to stamp_last_inq_sent_date_netsuite
create_draft_and_record(to, po_ids, draft_enabled, stamp_enabled, dry_run, response) ==
    IF ~draft_enabled
    THEN [result |-> [draft |-> [ok |-> FALSE, dry_run |-> FALSE, skipped |-> TRUE],
                      stamp |-> << >>, skipped |-> TRUE, po_ids |-> po_ids],
          created |-> << >>, stamped |-> << >>]
    ELSE LET draft_result == create_draft_msgraph(dry_run, response)
             stamps == stamp_enabled /\ draft_result.ok /\ ~draft_result.dry_run
         IN  [result |-> [draft |-> draft_result,
                          stamp |-> IF stamps THEN <<[ok |-> TRUE, updated |-> po_ids]>>
                                    ELSE << >>,
                          skipped |-> FALSE, po_ids |-> po_ids],
              created |-> IF draft_result.ok /\ ~draft_result.dry_run
                          THEN <<[to |-> to]>> ELSE << >>,
              stamped |-> IF stamps THEN <<po_ids>> ELSE << >>]

\* create_draft_tool, run_deterministic_mode: the status kept for the report
status_of(result) ==
    IF result.skipped THEN "skipped"
    ELSE IF result.draft.dry_run THEN "dry_run"
    ELSE IF result.draft.ok THEN "drafted"
    ELSE "failed"

\* the brief the loop over the briefs stands at
Brief == briefs_pack.briefs[vendor_i]

NBriefs == Len(briefs_pack.briefs)

\* result.get("failed"): agent mode counts the results that are not ok, the
\* deterministic mode those whose draft is neither ok nor skipped
failed_count ==
    Cardinality({k \in DOMAIN results : ~results[k].ok /\ ~results[k].skipped})

\* the effects of one call of create_draft_and_record on the mailbox, on
\* NetSuite (the stamper posts today's date in ISO format) and on the list
\* kept for the report
Drafting(to, po_ids, response) ==
    LET r == create_draft_and_record(to, po_ids, run.draft_enabled,
                                     run.stamp_enabled, run.dry_run, response)
    IN  /\ record_calls' = Append(record_calls,
              [brief |-> vendor_i, invocation |-> Len(invocations), to |-> to,
               po_ids |-> po_ids,
               draft_enabled |-> run.draft_enabled,
               stamp_enabled |-> run.stamp_enabled,
               result |-> r.result, stamped |-> r.stamped])
        /\ outlook' = outlook \o r.created
        /\ stamp_calls' = stamp_calls \o r.stamped
        /\ netsuite' = IF r.stamped = << >> THEN netsuite
                       ELSE stamp_last_inq_sent_date_netsuite(
                                netsuite, IdsOf(po_ids), isoformat(today), "iso")
        /\ captured_emails' = Append(captured_emails,
              [to |-> to, status |-> status_of(r.result), po_ids |-> po_ids,
               stamped |-> r.result.stamp # << >>])

\* what NetSuite holds when the run starts
AgentInputs ==
    {<<PO(1, po_number_of(1), "a@vendor", <<FarLine>>, NoneDate)>>,
     <<PO(1, po_number_of(1), "a@vendor", <<EarlyLine>>, NoneDate),
       PO(2, po_number_of(2), "a@vendor", LinesOf({1, 3}), NoneDate)>>,
     <<PO(1, po_number_of(1), "a@vendor", <<EarlyLine>>, NoneDate),
       PO(2, po_number_of(2), "b@vendor", LinesOf({3}), NoneDate)>>}

\* cli.py main 906-925: every combination of DRY_RUN, SEND_EMAILS and
\* STAMP_POS can be set by the environment, with or without the options
CliConfigs ==
    {Config("cli", d, s, st, na, ex) :
        d \in BOOLEAN, s \in BOOLEAN, st \in BOOLEAN, na \in BOOLEAN, ex \in BOOLEAN}

\* scheduled_run.py 81-84: the agent is made with the default
\* stamp_enabled = False; there is no deterministic mode and no report
ScheduledConfigs ==
    {Config("scheduled", d, s, FALSE, FALSE, FALSE) : d \in BOOLEAN, s \in BOOLEAN}

InitAgentRun ==
    /\ today = PipelineDay
    /\ purchase_orders = << >>
    /\ should_inquire = FALSE
    /\ cadence_reason = "None"
    /\ days_since_last_inq = << >>
    /\ analyzed = << >>
    /\ stats = InitStats(today)
    /\ netsuite \in AgentInputs
    /\ ran = FALSE
    /\ decision = NoDecision
    /\ due_sends = 0
    /\ prev_send = << >>
    /\ InitAgg
    /\ run \in CliConfigs \cup ScheduledConfigs
    /\ pc = "start"
    /\ vendor_i = 0
    /\ attempt = 0
    /\ invocations = << >>
    /\ results = << >>
    /\ captured_emails = << >>
    /\ record_calls = << >>
    /\ outlook = << >>
    /\ stamp_calls = << >>
    /\ sent_mail = << >>
    /\ exit_code = << >>

analysisvars ==
    <<today, purchase_orders, should_inquire, cadence_reason,
      days_since_last_inq, analyzed, stats, ran, decision, due_sends, prev_send>>

\* datagather raises: cli.py returns 1, run_scheduled_job returns 2
GatherFails ==
    /\ pc = "start"
    /\ exit_code' = IF run.entry = "cli" THEN <<1>> ELSE <<2>>
    /\ pc' = "done"
    /\ UNCHANGED <<analysisvars, invocations, netsuite, aggvars, run, vendor_i, attempt, results,
                   captured_emails, record_calls, outlook, stamp_calls, sent_mail>>

\* datagather, then analyze
GatherAndAnalyze ==
    /\ pc = "start"
    /\ LET s == analyze(netsuite, today)
       IN  /\ purchase_orders' = netsuite
           /\ should_inquire' = s.should_inquire
           /\ cadence_reason' = s.cadence_reason
           /\ days_since_last_inq' = s.days_since_last_inq
           /\ analyzed' = s.analyzed
           /\ stats' = s.stats
    /\ pc' = "briefs"
    /\ UNCHANGED <<invocations, today, ran, decision, due_sends, prev_send, netsuite, aggvars,
                   run, vendor_i, attempt, results, captured_emails, record_calls,
                   outlook, stamp_calls, sent_mail, exit_code>>

\* build_vendor_briefs(analysis, max_vendors=max_emails); "if not briefs:
\* return 0"
BuildBriefs ==
    /\ pc = "briefs"
    /\ LET pack == build_vendor_briefs(analyzed, default_max_emails,
                                       default_max_pos_per_vendor,
                                       default_max_lines_per_po)
       IN  /\ briefs_pack' = pack
           /\ caps' = Caps(default_max_emails, default_max_pos_per_vendor,
                           default_max_lines_per_po)
           /\ IF pack.briefs = << >>
              THEN /\ exit_code' = <<0>>
                   /\ pc' = "done"
                   /\ vendor_i' = vendor_i
              ELSE /\ exit_code' = exit_code
                   /\ pc' = "vendor"
                   /\ vendor_i' = 1
    /\ stage' = "run"
    /\ UNCHANGED <<analysisvars, invocations, netsuite, drafts, inquiries_pack, run, attempt,
                   results, captured_emails, record_calls, outlook, stamp_calls,
                   sent_mail>>

\* run_deterministic_mode: one iteration of the loop over the briefs
DraftVendor ==
    /\ pc = "vendor"
    /\ run.no_agent
    /\ vendor_i <= NBriefs
    /\ \E response \in DraftResponses :
        LET r == create_draft_and_record(Brief.vendor_email, Brief.po_ids,
                                         run.draft_enabled, run.stamp_enabled,
                                         run.dry_run, response)
        IN  /\ Drafting(Brief.vendor_email, Brief.po_ids, response)
            /\ results' = Append(results,
                  [vendor_email |-> Brief.vendor_email, ok |-> r.result.draft.ok,
                   skipped |-> r.result.skipped, error |-> ""])
    /\ vendor_i' = vendor_i + 1
    /\ UNCHANGED <<analysisvars, invocations, aggvars, run, pc, attempt, sent_mail, exit_code>>

\* run_agent_for_one_vendor: "for attempt in range(max_retries)" enters
\* Runner.run
InvokeAgent ==
    /\ pc = "vendor"
    /\ ~run.no_agent
    /\ vendor_i <= NBriefs
    /\ attempt \in range(max_retries)
    /\ attempt' = attempt + 1
    /\ invocations' = Append(invocations, [brief |-> vendor_i, ended |-> "running"])
    /\ pc' = "agent"
    /\ UNCHANGED <<analysisvars, netsuite, aggvars, run, vendor_i, results,
                   captured_emails, record_calls, outlook, stamp_calls, sent_mail,
                   exit_code>>

\* inside Runner.run the agent calls create_draft_tool, with the address
\* and the po_ids of the prompt
AgentCallsTool ==
    /\ pc = "agent"
    /\ Len(record_calls) < MaxToolCalls
    /\ \E response \in DraftResponses :
        Drafting(Brief.vendor_email, Brief.po_ids, response)
    /\ UNCHANGED <<analysisvars, invocations, aggvars, run, pc, vendor_i, attempt, results,
                   sent_mail, exit_code>>

\* Runner.run returns: {"ok": True, ...}
AgentCompletes ==
    /\ pc = "agent"
    /\ results' = Append(results,
          [vendor_email |-> Brief.vendor_email, ok |-> TRUE, skipped |-> FALSE,
           error |-> ""])
    /\ vendor_i' = vendor_i + 1
    /\ attempt' = 0
    /\ invocations' = [invocations EXCEPT ![Len(invocations)].ended = "completed"]
    /\ pc' = "vendor"
    /\ UNCHANGED <<analysisvars, netsuite, aggvars, run, captured_emails,
                   record_calls, outlook, stamp_calls, sent_mail, exit_code>>

\* Runner.run raises RateLimitError: sleep, then the next iteration
RateLimited ==
    /\ pc = "agent"
    /\ invocations' = [invocations EXCEPT ![Len(invocations)].ended = "rate_limited"]
    /\ pc' = "vendor"
    /\ UNCHANGED <<analysisvars, netsuite, aggvars, run, vendor_i, attempt, results,
                   captured_emails, record_calls, outlook, stamp_calls, sent_mail,
                   exit_code>>

\* the loop is exhausted: {"ok": False, "error": "Too many 429 retries"}
TooManyRetries ==
    /\ pc = "vendor"
    /\ ~run.no_agent
    /\ vendor_i <= NBriefs
    /\ attempt \notin range(max_retries)
    /\ results' = Append(results,
          [vendor_email |-> Brief.vendor_email, ok |-> FALSE, skipped |-> FALSE,
           error |-> "Too many 429 retries"])
    /\ vendor_i' = vendor_i + 1
    /\ attempt' = 0
    /\ UNCHANGED <<analysisvars, invocations, netsuite, aggvars, run, pc, captured_emails,
                   record_calls, outlook, stamp_calls, sent_mail, exit_code>>

\* Runner.run raises anything else (MaxTurnsExceeded, an API error):
\* run_scheduled_job catches it and returns 2, cli.py dies of it
AgentRaises ==
    /\ pc = "agent"
    /\ exit_code' = IF run.entry = "cli" THEN <<1>> ELSE <<2>>
    /\ invocations' = [invocations EXCEPT ![Len(invocations)].ended = "raised"]
    /\ pc' = "done"
    /\ UNCHANGED <<analysisvars, netsuite, aggvars, run, vendor_i, attempt, results,
                   captured_emails, record_calls, outlook, stamp_calls, sent_mail>>

\* cli.py main 1020-1071: the report, when asked for, is mailed with
\* send_report_email; then the exit code
CliFinish ==
    /\ pc = "vendor"
    /\ run.entry = "cli"
    /\ vendor_i > NBriefs
    /\ IF run.export_html
       THEN \E response \in SendResponses :
                sent_mail' = IF response = 202
                             THEN Append(sent_mail, [to |-> "MICROSOFT_USER_EMAIL",
                                                     attachment |-> "report"])
                             ELSE sent_mail
       ELSE sent_mail' = sent_mail
    /\ exit_code' = <<IF failed_count = 0 THEN 0 ELSE 1>>
    /\ pc' = "done"
    /\ UNCHANGED <<analysisvars, invocations, netsuite, aggvars, run, vendor_i, attempt, results,
                   captured_emails, record_calls, outlook, stamp_calls>>

\* scheduled_run.py 146-180: "return 1 if failed > 0 else 0"
ScheduledFinish ==
    /\ pc = "vendor"
    /\ run.entry = "scheduled"
    /\ vendor_i > NBriefs
    /\ exit_code' = <<IF failed_count > 0 THEN 1 ELSE 0>>
    /\ pc' = "done"
    /\ UNCHANGED <<analysisvars, invocations, netsuite, aggvars, run, vendor_i, attempt, results,
                   captured_emails, record_calls, outlook, stamp_calls, sent_mail>>

NextAgentRun ==
    \/ GatherFails
    \/ GatherAndAnalyze
    \/ BuildBriefs
    \/ DraftVendor
    \/ InvokeAgent
    \/ AgentCallsTool
    \/ AgentCompletes
    \/ RateLimited
    \/ TooManyRetries
    \/ AgentRaises
    \/ CliFinish
    \/ ScheduledFinish

SpecAgentRun == InitAgentRun /\ [][NextAgentRun]_vars

\* the run is one sequential program: while a step is possible, one is taken
SpecAgentRunFair == SpecAgentRun /\ WF_vars(NextAgentRun)

-----------------------------------------------------------------------------
(* The claims on drafting, stamping and the exit code *)

\* the calls of create_draft_and_record
Calls == {record_calls[k] : k \in DOMAIN record_calls}

\* the ids handed to the stamper so far
StampedIds == UNION {IdsOf(stamp_calls[k]) : k \in DOMAIN stamp_calls}

\* the purchase orders whose last inquiry date NetSuite holds
StampedInNetSuite ==
    {netsuite[k].po_id : k \in {j \in DOMAIN netsuite :
                                   netsuite[j].last_inq_sent_date # NoneDate}}

(* C21: create_draft_and_record calls the stamper only when stamp_enabled  *)
(* is true, drafts are enabled, the draft call returned ok and was not a   *)
(* dry run; otherwise nothing is stamped and the returned 'stamp' is None; *)
(* when it stamps, it passes exactly the po_ids it was given.              *)
C21_StampOnlyAfterRealDraft ==
    /\ \A c \in Calls :
        LET may == /\ c.stamp_enabled
                   /\ c.draft_enabled
                   /\ c.result.draft.ok
                   /\ ~c.result.draft.dry_run
        IN  /\ c.stamped # << >> <=> may
            /\ ~may => c.result.stamp = << >>
            /\ may => c.stamped = <<c.po_ids>> /\ c.result.stamp # << >>
    /\ Len(stamp_calls) = Cardinality({k \in DOMAIN record_calls :
                                          record_calls[k].stamped # << >>})
    /\ StampedInNetSuite = StampedIds

\* one run with stamping enabled: a draft that Graph refused, not stamped,
\* and a created draft, stamped with the two ids it was given
C21_Witness ==
    /\ run.stamp_enabled
    /\ \E c \in Calls : ~c.result.draft.ok /\ c.draft_enabled /\ c.stamped = << >>
    /\ \E c \in Calls : Len(c.po_ids) = 2 /\ c.stamped = <<c.po_ids>>
    /\ StampedInNetSuite = {1, 2}

(* C22: a CLI run in dry-run mode creates no Outlook draft, stamps no PO   *)
(* and sends no email, for every combination of the other options.         *)
C22_DryRunSafe ==
    (run.entry = "cli" /\ run.dry_run) =>
        /\ outlook = << >>
        /\ stamp_calls = << >>
        /\ StampedInNetSuite = {}
        /\ sent_mail = << >>

\* the run ended by an exception, not by the end of the loop over the
\* briefs nor by the lack of briefs
RaisedFatal ==
    /\ exit_code # << >>
    /\ stage # "run" \/ (NBriefs > 0 /\ vendor_i <= NBriefs)

\* some vendor's email failed: the retries were exhausted, or the draft
\* tool got ok = False from the draft call
SomeEmailFailed ==
    \/ \E k \in DOMAIN results : ~results[k].ok
    \/ \E k \in DOMAIN captured_emails : captured_emails[k].status = "failed"

(* C24: run_scheduled_job returns 2 when the pipeline raised a fatal       *)
(* error; otherwise 1 when the email of at least one vendor failed, a      *)
(* draft creation that returned ok = False inside the draft tool included, *)
(* and 0 when none failed or no vendor requires an inquiry.                *)
C24_ExitCode ==
    (run.entry = "scheduled" /\ exit_code # << >>) =>
        /\ exit_code = <<2>> <=> RaisedFatal
        /\ ~RaisedFatal => (exit_code = <<1>> <=> SomeEmailFailed)
        /\ ~RaisedFatal => (exit_code = <<0>> <=> ~SomeEmailFailed)
        /\ (stage = "run" /\ NBriefs = 0) => exit_code = <<0>>

\* the calls of the draft collaborator made for brief i
DraftCallsFor(i) ==
    {k \in DOMAIN record_calls :
        record_calls[k].brief = i /\ ~record_calls[k].result.skipped}

(* C28: in agent mode the draft collaborator is invoked at most once per   *)
(* vendor brief in a run, whatever the agent does and whatever rate-limit  *)
(* errors occur.                                                           *)
C28_OneDraftPerVendor ==
    (run.entry # "none" /\ ~run.no_agent) =>
        \A i \in 1..NBriefs : Cardinality(DraftCallsFor(i)) <= 1

\* the invocations of the agent made for brief i, in order
InvocationsFor(i) == LET Of(v) == v.brief = i IN SelectSeq(invocations, Of)

\* the briefs run_agent_for_one_vendor has returned for
Returned == {k \in DOMAIN results : k <= NBriefs}

C29_Bounded ==
    ~run.no_agent =>
        /\ \A i \in 1..NBriefs : Len(InvocationsFor(i)) <= max_retries
        /\ \A k \in Returned :
            LET inv == InvocationsFor(k)
                n == Len(inv)
            IN  /\ \A j \in 1..(n - 1) : inv[j].ended = "rate_limited"
                /\ results[k].ok <=> (n > 0 /\ inv[n].ended = "completed")
                /\ ~results[k].ok =>
                      /\ n = max_retries
                      /\ inv[n].ended = "rate_limited"
                      /\ results[k].error = "Too many 429 retries"
        /\ (exit_code # << >> /\ ~RaisedFatal) => Len(results) = NBriefs

(* C29: run_agent_for_one_vendor invokes the agent at most max_retries     *)
(* times; it returns ok = True at the first invocation that ends without   *)
(* a rate-limit error, and ok = False with 'Too many 429 retries' after    *)
(* max_retries rate-limit errors in a row; a failed vendor does not stop   *)
(* the remaining vendors, and the run comes to its end.                    *)
C29_RetriesTerminate == []C29_Bounded /\ <>(pc = "done")

\* the first vendor gave up after max_retries rate-limit errors, the second
\* went through at its second invocation, and the run ended
C29_Witness ==
    /\ pc = "done"
    /\ Len(results) = 2
    /\ ~results[1].ok
    /\ Len(InvocationsFor(1)) = max_retries
    /\ results[2].ok
    /\ Len(InvocationsFor(2)) = 2

====
